---------------------------- MODULE Spec2Model ----------------------------
(***************************************************************************)
(* A model of quant/price/price_processing.py (calculate_portvals) and of  *)
(* quant/backtest/metric.py (class Metric).                                *)
(*                                                                         *)
(* Numbers.  A pandas/numpy float is modelled as a pair <<n, d>>: an exact *)
(* rational n/d in lowest terms when d > 0, NaN when <<0, 0>>, +inf when   *)
(* <<1, 0>> and -inf when <<-1, 0>>.  Rounding error of binary floating    *)
(* point is outside the model: arithmetic is exact.                        *)
(*                                                                         *)
(* Tables.  A pandas Series is a record [index, vals]; a DataFrame is a    *)
(* record [index, rows] whose rows are sequences over the asset columns.   *)
(* A timestamp is a day number.                                            *)
(***************************************************************************)
EXTENDS Integers, Sequences, FiniteSets, TLC

VARIABLES
    \* ---- calculate_portvals -------------------------------------------
    price_df,                       \* argument: the price table
    weight_df,                      \* argument: the weight schedule
    pc,                             \* position in calculate_portvals
    prev_end_day,                   \* local, line 134 / 148
    pos,                            \* position of the for loop in weight_df.index
    cum_rtn_up_until_now,           \* local, line 132 / 146
    individual_port_val_df_list,    \* local, line 133 / 143
    individual_port_val_df,         \* the returned table (line 150)
    raised,                         \* the exception that ended the call, or "none"
    \* ---- class Metric -------------------------------------------------
    ctor_args,                      \* arguments of Metric(portfolio, freq)
    metric,                         \* the Metric object: portfolio, param, freq2day, cum_rets
    heap,                           \* the Series objects that outlive a call:
                                    \*   heap[SelfRets] is self.rets,
                                    \*   heap[CallerSeries] is a Series of the caller
    last,                           \* the last call of a Metric method and its result
    stdout                          \* the lines the call on record has printed

portVars == <<price_df, weight_df, pc, prev_end_day, pos, cum_rtn_up_until_now,
              individual_port_val_df_list, individual_port_val_df, raised>>

metricVars == <<ctor_args, metric, heap, last, stdout>>

vars == <<portVars, metricVars>>

---------------------------------------------------------------------------
(* Bounds of the model *)

\* days are 1..MaxDay
MaxDay == 3
\* a weight schedule has at most MaxSched rows
MaxSched == 3

\* the dates of a Metric's portfolio are among 1..MaxDate
MaxDate == 4

\* number of asset columns of a table
AssetCounts == {1, 2}
\* the prices a cell of the price table may hold
PriceInts == {1, 2}
\* the weights a cell of the weight schedule may hold, as <<n, d>>
WeightVals == {<<1, 2>>, <<1, 1>>}

---------------------------------------------------------------------------
(* Floats *)

Abs(n) == IF n < 0 THEN -n ELSE n

Sgn(n) == IF n < 0 THEN -1 ELSE IF n > 0 THEN 1 ELSE 0

RECURSIVE GCD(_, _)
GCD(a, b) == IF b = 0 THEN a ELSE GCD(b, a % b)

\* the float n/d, d # 0, in lowest terms
Q(n, d) ==
    LET g == GCD(Abs(n), Abs(d))
        s == IF d < 0 THEN -1 ELSE 1
    IN  <<(s * n) \div g, (s * d) \div g>>

NaN == <<0, 0>>
Zero == <<0, 1>>
One == <<1, 1>>

IsNaN(x) == x[2] = 0 /\ x[1] = 0
IsInf(x) == x[2] = 0 /\ x[1] # 0
IsFinite(x) == x[2] > 0

FNeg(x) == <<-x[1], x[2]>>

FAdd(a, b) ==
    IF IsNaN(a) \/ IsNaN(b) THEN NaN
    ELSE IF IsInf(a) /\ IsInf(b) THEN (IF a = b THEN a ELSE NaN)
    ELSE IF IsInf(a) THEN a
    ELSE IF IsInf(b) THEN b
    ELSE Q(a[1] * b[2] + b[1] * a[2], a[2] * b[2])

FSub(a, b) == FAdd(a, FNeg(b))

FMul(a, b) ==
    IF IsNaN(a) \/ IsNaN(b) THEN NaN
    ELSE IF IsInf(a) \/ IsInf(b)
         THEN (IF a[1] = 0 \/ b[1] = 0 THEN NaN ELSE <<Sgn(a[1]) * Sgn(b[1]), 0>>)
    ELSE Q(a[1] * b[1], a[2] * b[2])

\* IEEE division: x/0 is an infinity, 0/0 and inf/inf are NaN
FDiv(a, b) ==
    IF IsNaN(a) \/ IsNaN(b) THEN NaN
    ELSE IF IsInf(a) THEN (IF IsInf(b) THEN NaN
                           ELSE <<a[1] * (IF b[1] < 0 THEN -1 ELSE 1), 0>>)
    ELSE IF IsInf(b) THEN Zero
    ELSE IF b[1] = 0 THEN (IF a[1] = 0 THEN NaN ELSE <<Sgn(a[1]), 0>>)
    ELSE Q(a[1] * b[2], a[2] * b[1])

\* a < b and a <= b; any comparison with NaN is false
FLt(a, b) ==
    /\ ~IsNaN(a) /\ ~IsNaN(b)
    /\ IF IsInf(a) \/ IsInf(b)
       THEN (IF IsInf(a) /\ IsInf(b) THEN a[1] < b[1]
             ELSE IF IsInf(a) THEN a[1] < 0 ELSE b[1] > 0)
       ELSE a[1] * b[2] < b[1] * a[2]

FLe(a, b) == ~IsNaN(a) /\ ~IsNaN(b) /\ (a = b \/ FLt(a, b))

\* x != y of numpy: true when either side is NaN
FNe(a, b) == IsNaN(a) \/ IsNaN(b) \/ a # b

RECURSIVE FSum(_)
FSum(s) == IF s = <<>> THEN Zero ELSE FAdd(Head(s), FSum(Tail(s)))

---------------------------------------------------------------------------
(* Sequences and indexes *)

Min(S) == CHOOSE x \in S : \A y \in S : x <= y

RECURSIVE SortedSeq(_)
SortedSeq(S) == IF S = {} THEN <<>> ELSE <<Min(S)>> \o SortedSeq(S \ {Min(S)})

Range(s) == {s[i] : i \in 1..Len(s)}

\* the position of label t in index idx (t is in idx, idx has no duplicates)
PosOf(idx, t) == CHOOSE i \in 1..Len(idx) : idx[i] = t

StrictlyIncreasing(idx) == \A i \in 1..(Len(idx) - 1) : idx[i] < idx[i + 1]

EmptyFrame == [index |-> <<>>, rows |-> <<>>]


---------------------------------------------------------------------------
(* pandas operations used by calculate_portvals *)

\* df.loc[a:b] on a strictly increasing index: the rows whose label lies in
\* the closed range [a, b]; a label absent from the index is no error
LocSlice(df, a, b) ==
    LET keep == SortedSeq({i \in 1..Len(df.index) : a <= df.index[i] /\ df.index[i] <= b})
    IN  [index |-> [i \in 1..Len(keep) |-> df.index[keep[i]]],
         rows  |-> [i \in 1..Len(keep) |-> df.rows[keep[i]]]]

\* df.loc[label]: the row of a label the index holds
LocRow(df, label) == df.rows[PosOf(df.index, label)]

\* sub_price_df / sub_price_df.iloc[0] (the frame is not empty)
Rebase(sub_price_df) ==
    [sub_price_df EXCEPT !.rows =
        [i \in 1..Len(sub_price_df.rows) |->
            [c \in 1..Len(sub_price_df.rows[i]) |->
                FDiv(sub_price_df.rows[i][c], sub_price_df.rows[1][c])]]]

ApplyWeightsUnscaled(sub_asset_flow_df, weight_series, cum) ==
    [sub_asset_flow_df EXCEPT !.rows =
        [i \in 1..Len(sub_asset_flow_df.rows) |->
            [c \in 1..Len(sub_asset_flow_df.rows[i]) |->
                FMul(sub_asset_flow_df.rows[i][c], weight_series[c])]]]

\* (sub_asset_flow_df * weight_series) * cum_rtn_up_until_now
ApplyWeights(sub_asset_flow_df, weight_series, cum) ==
    [sub_asset_flow_df EXCEPT !.rows =
        [i \in 1..Len(sub_asset_flow_df.rows) |->
            [c \in 1..Len(sub_asset_flow_df.rows[i]) |->
                FMul(FMul(sub_asset_flow_df.rows[i][c], weight_series[c]), cum)]]]

\* df.sum(axis=1)
SumAxis1(df) ==
    [index |-> df.index, vals |-> [i \in 1..Len(df.rows) |-> FSum(df.rows[i])]]

NextCumReset(indi_port_cum_rtn_series) == One

\* total_port_cum_rtn_series.iloc[-1] of lines 145-146
NextCum(indi_port_cum_rtn_series) ==
    LET total_port_cum_rtn_series == SumAxis1(indi_port_cum_rtn_series)
    IN  total_port_cum_rtn_series.vals[Len(total_port_cum_rtn_series.vals)]

WeightInForceAtEnd(wdf, prev, end_day) == LocRow(wdf, end_day)

\* weight_df.loc[prev_end_day] of line 140
WeightInForce(wdf, prev, end_day) == LocRow(wdf, prev)

IlocFrom1Keep(y) == y

\* y.iloc[1:]
IlocFrom1(y) ==
    [index |-> SubSeq(y.index, 2, Len(y.index)),
     rows  |-> SubSeq(y.rows, 2, Len(y.rows))]

\* pd.concat([x, y])
Concat(x, y) == [index |-> x.index \o y.index, rows |-> x.rows \o y.rows]

\* reduce(lambda x, y: pd.concat([x, y.iloc[1:]]), list) for a list that is
\* not empty: the fold from the left, starting with the first frame
RECURSIVE FoldConcat(_, _)
FoldConcat(x, rest) ==
    IF rest = <<>> THEN x
    ELSE FoldConcat(Concat(x, IlocFrom1(Head(rest))), Tail(rest))

ReduceConcatWithInitial(list) ==
    IF list = <<>> THEN [ok |-> TRUE, df |-> EmptyFrame]
    ELSE [ok |-> TRUE, df |-> FoldConcat(Head(list), Tail(list))]

\* functools.reduce without an initial value: a TypeError on an empty list
ReduceConcat(list) ==
    IF list = <<>> THEN [ok |-> FALSE, df |-> EmptyFrame]
    ELSE [ok |-> TRUE, df |-> FoldConcat(Head(list), Tail(list))]

\* lines 136-148 as a function of the arguments: the frames of the intervals
\* from the k-th on, for a call in which no slice is empty
RECURSIVE IntervalFrames(_, _, _, _)
IntervalFrames(pdf, wdf, k, cum) ==
    IF k >= Len(wdf.index) THEN <<>>
    ELSE LET sub_price_df == LocSlice(pdf, wdf.index[k], wdf.index[k + 1])
             indi_port_cum_rtn_series ==
                 ApplyWeights(Rebase(sub_price_df),
                              WeightInForce(wdf, wdf.index[k], wdf.index[k + 1]), cum)
         IN  <<indi_port_cum_rtn_series>>
                 \o IntervalFrames(pdf, wdf, k + 1, NextCum(indi_port_cum_rtn_series))

\* lines 132-151 as a function of the arguments, for a call that returns
calculate_portvals(pdf, wdf) == ReduceConcat(IntervalFrames(pdf, wdf, 1, One)).df

---------------------------------------------------------------------------
(* calculate_portvals *)

\* the price tables and weight schedules the calls are made with: strictly
\* increasing indexes, positive prices, every cell filled
PriceTables(n) ==
    UNION {[index : {SortedSeq(D)},
            rows  : [1..Cardinality(D) -> [1..n -> {Q(p, 1) : p \in PriceInts}]]]
           : D \in (SUBSET (1..MaxDay)) \ {{}}}

WeightSchedules(n) ==
    UNION {[index : {SortedSeq(D)},
            rows  : [1..Cardinality(D) -> [1..n -> WeightVals]]]
           : D \in {E \in SUBSET (1..MaxDay) : Cardinality(E) <= MaxSched}}

InitPort ==
    /\ \E n \in AssetCounts :
          /\ price_df \in PriceTables(n)
          /\ weight_df \in WeightSchedules(n)
    /\ pc = "start"
    /\ prev_end_day = 0
    /\ pos = 0
    /\ cum_rtn_up_until_now = One
    /\ individual_port_val_df_list = <<>>
    /\ individual_port_val_df = EmptyFrame
    /\ raised = "none"
    /\ ctor_args = [type |-> "none", index |-> <<>>, rows |-> <<>>, freq |-> ""]
    /\ metric = [alive |-> FALSE, portfolio |-> [index |-> <<>>, vals |-> <<>>],
                 param |-> 0, freq2day |-> 0,
                 cum_rets |-> [index |-> <<>>, vals |-> <<>>]]
    /\ heap = <<[index |-> <<>>, vals |-> <<>>], [index |-> <<>>, vals |-> <<>>]>>
    /\ last = [op |-> "none", arg |-> "None", rolling |-> FALSE,
               lookback |-> [type |-> "int", val |-> <<1, 1>>], delta |-> <<1, 100>>,
               result |-> [kind |-> "None", num |-> <<0, 1>>,
                           s |-> [index |-> <<>>, vals |-> <<>>], exc |-> ""]]
    /\ stdout = <<>>

\* lines 132-134; weight_df.index[0] of an empty index is an IndexError
Begin ==
    /\ pc = "start"
    /\ IF Len(weight_df.index) = 0
       THEN /\ pc' = "raised"
            /\ raised' = "IndexError"
            /\ UNCHANGED <<prev_end_day, pos, cum_rtn_up_until_now>>
       ELSE /\ pc' = "loop"
            /\ cum_rtn_up_until_now' = One
            /\ prev_end_day' = weight_df.index[1]
            /\ pos' = 2
            /\ UNCHANGED raised
    /\ individual_port_val_df_list' = <<>>
    /\ UNCHANGED <<price_df, weight_df, individual_port_val_df, metricVars>>

\* one pass of the for loop, lines 136-148; sub_price_df.iloc[0] of an empty
\* frame is an IndexError
LoopBody ==
    /\ pc = "loop"
    /\ pos <= Len(weight_df.index)
    /\ LET end_day == weight_df.index[pos]
           sub_price_df == LocSlice(price_df, prev_end_day, end_day)
       IN  IF sub_price_df.index = <<>>
           THEN /\ pc' = "raised"
                /\ raised' = "IndexError"
                /\ UNCHANGED <<prev_end_day, pos, cum_rtn_up_until_now,
                               individual_port_val_df_list>>
           ELSE LET sub_asset_flow_df == Rebase(sub_price_df)
                    weight_series == WeightInForce(weight_df, prev_end_day, end_day)
                    indi_port_cum_rtn_series ==
                        ApplyWeights(sub_asset_flow_df, weight_series,
                                     cum_rtn_up_until_now)
                IN  /\ individual_port_val_df_list' =
                          Append(individual_port_val_df_list, indi_port_cum_rtn_series)
                    /\ cum_rtn_up_until_now' = NextCum(indi_port_cum_rtn_series)
                    /\ prev_end_day' = end_day
                    /\ pos' = pos + 1
                    /\ UNCHANGED <<pc, raised>>
    /\ UNCHANGED <<price_df, weight_df, individual_port_val_df, metricVars>>

\* lines 150-151, after the loop
Finish ==
    /\ pc = "loop"
    /\ pos > Len(weight_df.index)
    /\ LET r == ReduceConcat(individual_port_val_df_list)
       IN  IF r.ok
           THEN /\ pc' = "returned"
                /\ individual_port_val_df' = r.df
                /\ UNCHANGED raised
           ELSE /\ pc' = "raised"
                /\ raised' = "TypeError"
                /\ UNCHANGED individual_port_val_df
    /\ UNCHANGED <<price_df, weight_df, prev_end_day, pos, cum_rtn_up_until_now,
                   individual_port_val_df_list, metricVars>>

NextPort == Begin \/ LoopBody \/ Finish

SpecPort == InitPort /\ [][NextPort]_vars


---------------------------------------------------------------------------
(* Properties of calculate_portvals *)

NumAssets == Len(price_df.rows[1])

\* every timestamp of the schedule is a timestamp of the price table
SchedInIndex == Range(weight_df.index) \subseteq Range(price_df.index)

\* the price timestamps of the closed range [a, b], in order
PriceDays(a, b) == SortedSeq({t \in Range(price_df.index) : a <= t /\ t <= b})

\* (price[t][c] / price[t_k][c]) * weight[t_k][c]
WeightedDrift(k, t, c) ==
    FMul(FDiv(LocRow(price_df, t)[c], LocRow(price_df, weight_df.index[k])[c]),
         weight_df.rows[k][c])

\* V_k of the schedule's k-th interval, from the arguments alone: V_1 = 1 and
\* V_(k+1) = sum over the assets of price[t_(k+1)]/price[t_k] * weight[t_k] * V_k
RECURSIVE IntervalStartValue(_)
IntervalStartValue(k) ==
    IF k = 1 THEN One
    ELSE LET v == IntervalStartValue(k - 1)
         IN  FSum([c \in 1..NumAssets |->
                    FMul(WeightedDrift(k - 1, weight_df.index[k], c), v)])

\* the interval whose values the returned table holds at t: the one that ends
\* at or after t and starts before it (the first interval also holds its start)
IntervalOf(t) ==
    CHOOSE k \in 1..(Len(weight_df.index) - 1) :
        /\ t <= weight_df.index[k + 1]
        /\ weight_df.index[k] < t \/ (k = 1 /\ weight_df.index[1] = t)

\* C1: for a schedule within the price index, the k-th interval's frame
\* holds, at every price timestamp t of the closed interval [t_k, t_(k+1)]
\* and every asset a, (price[t][a] / price[t_k][a]) * weight[t_k][a] * V_k,
\* with V_1 = 1 and V_(k+1) the row sum of the k-th frame at t_(k+1); the
\* returned table holds these values, each timestamp taken from the interval
\* that ends at it.
C1_IntervalValues ==
    SchedInIndex =>
        /\ \A k \in 1..Len(individual_port_val_df_list) :
              LET f == individual_port_val_df_list[k]
                  v == IntervalStartValue(k)
              IN  /\ f.index = PriceDays(weight_df.index[k], weight_df.index[k + 1])
                  /\ \A i \in 1..Len(f.index) : \A c \in 1..NumAssets :
                        f.rows[i][c] = FMul(WeightedDrift(k, f.index[i], c), v)
        /\ pc = "loop" => cum_rtn_up_until_now = IntervalStartValue(pos - 1)
        /\ pc = "returned" =>
              \A i \in 1..Len(individual_port_val_df.index) :
                  LET t == individual_port_val_df.index[i]
                      k == IntervalOf(t)
                      v == IntervalStartValue(k)
                  IN  \A c \in 1..NumAssets :
                         individual_port_val_df.rows[i][c]
                             = FMul(WeightedDrift(k, t, c), v)

C1_Witness ==
    /\ pc = "returned"
    /\ SchedInIndex
    /\ Len(weight_df.index) = 3
    /\ NumAssets = 2
    /\ cum_rtn_up_until_now \notin {Zero, One}
    /\ weight_df.rows[1] # weight_df.rows[2]
    /\ Len(individual_port_val_df.index) = 3

C3_IndexOnce ==
    (/\ SchedInIndex
     /\ Len(weight_df.index) >= 2
     /\ StrictlyIncreasing(weight_df.index))
    =>
    /\ pc # "raised"
    /\ pc = "returned" =>
          /\ individual_port_val_df.index
                = PriceDays(weight_df.index[1], weight_df.index[Len(weight_df.index)])
          /\ StrictlyIncreasing(individual_port_val_df.index)
          /\ Len(individual_port_val_df.rows) = Len(individual_port_val_df.index)

C3_Witness ==
    /\ pc = "returned"
    /\ SchedInIndex
    /\ Len(weight_df.index) = 3
    /\ individual_port_val_df.index = weight_df.index

\* C4: a call whose schedule holds a timestamp absent from the price index
\* ends in an error and returns no table.
C4_MissingPriceRowFails ==
    (/\ pc \in {"returned", "raised"}
     /\ ~SchedInIndex)
    => pc = "raised"

\* C5: a call with a schedule of fewer than 2 timestamps never returns a
\* table: it ends in an exception (IndexError for no row, TypeError for one).
C5_InsufficientSchedule ==
    Len(weight_df.index) < 2 =>
        /\ pc # "returned"
        /\ individual_port_val_df = EmptyFrame
        /\ pc = "loop" => individual_port_val_df_list = <<>> /\ pos > Len(weight_df.index)
        /\ pc = "raised" =>
              raised = (IF Len(weight_df.index) = 0 THEN "IndexError" ELSE "TypeError")

C5_Witness ==
    /\ pc = "raised"
    /\ Len(weight_df.index) = 1
    /\ raised = "TypeError"


---------------------------------------------------------------------------
(* pandas operations used by class Metric.  A Series is [index, vals]. *)

EmptySeries == [index |-> <<>>, vals |-> <<>>]

\* s.pct_change().fillna(0): 0 at the first row, v[i]/v[i-1] - 1 after it
PctChangeFillna0(s) ==
    [s EXCEPT !.vals = [i \in 1..Len(s.vals) |->
        IF i = 1 THEN Zero ELSE FSub(FDiv(s.vals[i], s.vals[i - 1]), One)]]

\* (1 + s).cumprod()
RECURSIVE CumProdVals(_)
CumProdVals(v) ==
    IF v = <<>> THEN <<>>
    ELSE LET front == CumProdVals(SubSeq(v, 1, Len(v) - 1))
             x == FAdd(One, v[Len(v)])
         IN  Append(front, IF front = <<>> THEN x ELSE FMul(front[Len(front)], x))

CumProd1p(s) == [s EXCEPT !.vals = CumProdVals(s.vals)]

FMax(a, b) == IF FLt(a, b) THEN b ELSE a

FMin(a, b) == IF FLt(b, a) THEN b ELSE a

\* s.min(), s.max(): NaN for an empty Series
RECURSIVE MinVals(_)
MinVals(v) ==
    IF v = <<>> THEN NaN
    ELSE IF Len(v) = 1 THEN v[1]
    ELSE FMin(v[1], MinVals(Tail(v)))

RECURSIVE MaxVals(_)
MaxVals(v) ==
    IF v = <<>> THEN NaN
    ELSE IF Len(v) = 1 THEN v[1]
    ELSE FMax(v[1], MaxVals(Tail(v)))

CumMaxValsWhole(v) == [i \in 1..Len(v) |-> MaxVals(v)]

\* s.cummax()
RECURSIVE CumMaxVals(_)
CumMaxVals(v) ==
    IF v = <<>> THEN <<>>
    ELSE LET front == CumMaxVals(SubSeq(v, 1, Len(v) - 1))
         IN  Append(front, IF front = <<>> THEN v[Len(v)]
                           ELSE FMax(front[Len(front)], v[Len(v)]))

\* s.mean(): NaN for an empty Series (0/0)
MeanVals(v) == FDiv(FSum(v), Q(Len(v), 1))

\* the values of v that satisfy the boolean mask, in order
RECURSIVE Masked(_, _)
Masked(v, mask) ==
    IF v = <<>> THEN <<>>
    ELSE (IF Head(mask) THEN <<Head(v)>> ELSE <<>>) \o Masked(Tail(v), Tail(mask))

\* sorted values, ascending
RECURSIVE Insert(_, _)
Insert(x, sorted) ==
    IF sorted = <<>> THEN <<x>>
    ELSE IF FLe(x, Head(sorted)) THEN <<x>> \o sorted
    ELSE <<Head(sorted)>> \o Insert(x, Tail(sorted))

RECURSIVE SortVals(_)
SortVals(v) == IF v = <<>> THEN <<>> ELSE Insert(Head(v), SortVals(Tail(v)))

\* s.quantile(delta), linear interpolation between the order statistics
\* around position (n - 1) * delta; NaN for an empty Series
QuantileVals(v, delta) ==
    IF v = <<>> THEN NaN
    ELSE LET sorted == SortVals(v)
             where == FMul(Q(Len(v) - 1, 1), delta)
             lo == where[1] \div where[2]
             frac == Q(where[1] - lo * where[2], where[2])
         IN  IF frac = Zero THEN sorted[lo + 1]
             ELSE FAdd(sorted[lo + 1],
                       FMul(FSub(sorted[lo + 2], sorted[lo + 1]), frac))

\* s.rolling(window).mean() and .quantile(delta): NaN until the window is full
RollingMeanVals(v, window) ==
    [i \in 1..Len(v) |->
        IF i < window THEN NaN ELSE MeanVals(SubSeq(v, i - window + 1, i))]

RollingQuantileVals(v, window, delta) ==
    [i \in 1..Len(v) |->
        IF i < window THEN NaN ELSE QuantileVals(SubSeq(v, i - window + 1, i), delta)]

\* s.fillna(0)
Fillna0(v) == [i \in 1..Len(v) |-> IF IsNaN(v[i]) THEN Zero ELSE v[i]]

\* s.ffill()
RECURSIVE FFill(_)
FFill(v) ==
    IF v = <<>> THEN <<>>
    ELSE LET front == FFill(SubSeq(v, 1, Len(v) - 1))
             x == v[Len(v)]
         IN  Append(front, IF IsNaN(x) /\ front # <<>> THEN front[Len(front)] ELSE x)

\* s.replace(0, np.nan)
Replace0NaN(v) == [i \in 1..Len(v) |-> IF v[i] = Zero THEN NaN ELSE v[i]]


---------------------------------------------------------------------------
(* Python values of class Metric *)

\* the objects of the heap that outlive a call
SelfRets == 1
CallerSeries == 2

\* what a method's `returns` parameter is bound to: a Series, or the Rolling
\* object that Series.rolling(window) makes of it
SeriesValue(s) == [kind |-> "Series", s |-> s, window |-> 0]
RollingValue(s, window) == [kind |-> "Rolling", s |-> s, window |-> window]

\* a float whose value the model does not compute (a fractional power, a
\* square root, a higher moment); it may be any float, NaN and inf included
Opaque == <<0, -1>>

\* how a call ends: with a float, with a Series, or with an exception
RFloat(x) == [kind |-> "float", num |-> x, s |-> EmptySeries, exc |-> ""]
RSeries(s) == [kind |-> "Series", num |-> Zero, s |-> s, exc |-> ""]
RRaise(e) == [kind |-> "raise", num |-> Zero, s |-> EmptySeries, exc |-> e]
RNone == [kind |-> "None", num |-> Zero, s |-> EmptySeries, exc |-> ""]

\* int(x): truncation toward zero
Trunc(x) == IF x[1] >= 0 THEN x[1] \div x[2] ELSE -((-x[1]) \div x[2])

Labels == {"day", "week", "month", "quarter", "half-year", "year"}

\* annualize_scale_dict[param]; 0 stands for the KeyError that
\* annualize_scaler turns into Exception
annualize_scale_dict(param) ==
    CASE param = "day" -> 252
      [] param = "week" -> 52
      [] param = "month" -> 12
      [] param = "quarter" -> 4
      [] param = "half-year" -> 2
      [] param = "year" -> 1
      [] OTHER -> 0

\* calc_lookback: lookback * scale for an int, int(lookback * scale) for a float
calc_lookback(lookback, scale) ==
    IF lookback.type = "int" THEN lookback.val[1] * scale
    ELSE Trunc(FMul(lookback.val, Q(scale, 1)))

SeriesCopyAlias(h, ref) == [heap |-> h, ref |-> ref]

\* s.copy(): a new Series object with the same index and values
SeriesCopy(h, ref) == [heap |-> Append(h, h[ref]), ref |-> Len(h) + 1]

\* the object `returns` names: self.rets for None, else the caller's Series
ArgRef(arg) == IF arg = "None" THEN SelfRets ELSE CallerSeries

\* the wrapper of @external, lines 77-85: rets is a copy of the Series
ExternalWrapper(h, arg) ==
    LET c == SeriesCopy(h, ArgRef(arg))
    IN  [heap |-> c.heap, ref |-> c.ref, returns |-> SeriesValue(c.heap[c.ref])]

\* the wrapper of @rolling, lines 57-71: rets is a copy of the Series, or
\* the Rolling object over that copy; func is called without the rolling
\* flag, so inside func `rolling` has its default, False
RollingWrapper(h, arg, rolling, lookback, param) ==
    LET c == SeriesCopy(h, ArgRef(arg))
        window == calc_lookback(lookback, param)
    IN  [heap |-> c.heap, ref |-> c.ref, rolling |-> FALSE,
         returns |-> IF rolling THEN RollingValue(c.heap[c.ref], window)
                     ELSE SeriesValue(c.heap[c.ref])]

\* line 72: result.fillna(0) if isinstance(result, pd.Series) else result
RollingResult(result) ==
    IF result.kind = "Series"
    THEN RSeries([result.s EXCEPT !.vals = Fillna0(result.s.vals)])
    ELSE result

\* the objects still referenced when the call is over
Persist(h) == SubSeq(h, 1, CallerSeries)

---------------------------------------------------------------------------
(* The bodies of the methods, on the value `returns` is bound to.  A nested
   self.method(returns) goes through @external again: it works on one more
   copy, which it only reads, so it is the body applied to the same value. *)

\* line 92: a Rolling object has no .add
annualized_return_body(returns, param) ==
    IF returns.kind = "Rolling" THEN RRaise("AttributeError")
    ELSE IF returns.s.vals = <<>> THEN RRaise("ZeroDivisionError")
    ELSE RFloat(Opaque)

\* line 96: std() is defined for a Series and for a Rolling object
annualized_volatility_body(returns, param) ==
    IF returns.kind = "Rolling"
    THEN RSeries([returns.s EXCEPT !.vals =
            [i \in 1..Len(returns.s.vals) |->
                IF i < returns.window \/ returns.window < 2 THEN NaN ELSE Opaque]])
    ELSE RFloat(IF Len(returns.s.vals) < 2 THEN NaN ELSE Opaque)

\* line 124
sharp_ratio_body(returns, param) ==
    LET ar == annualized_return_body(returns, param)
    IN  IF ar.kind = "raise" THEN ar ELSE RFloat(Opaque)

\* lines 338-339: 1 + returns is a TypeError for a Rolling object
drawdown_body(returns) ==
    IF returns.kind = "Rolling" THEN RRaise("TypeError")
    ELSE LET cum_rets == CumProd1p(returns.s)
             peak == CumMaxVals(cum_rets.vals)
         IN  RSeries([cum_rets EXCEPT !.vals =
                [i \in 1..Len(cum_rets.vals) |->
                    FSub(FDiv(cum_rets.vals[i], peak[i]), One)]])


\* lines 152-154, returns[returns >= 0] = 0: the values of the Series object
\* `returns` names, written in place
DownsideZeroed(v) == [i \in 1..Len(v) |-> IF FLe(Zero, v[i]) THEN Zero ELSE v[i]]

\* line 156: annualized_return is evaluated first, then downside_std writes
\* to the Series object h[ref]; the result with the heap the call leaves
sortino_ratio_body(h, ref, returns, param) ==
    LET ar == annualized_return_body(returns, param)
    IN  IF ar.kind = "raise" THEN [heap |-> h, result |-> ar]
        ELSE [heap |-> [h EXCEPT ![ref].vals = DownsideZeroed(h[ref].vals)],
              result |-> RFloat(Opaque)]

\* lines 185-192; with the flag False dd is never windowed
calmar_ratio_body(returns, rolling, param) ==
    LET dd == drawdown_body(returns)
        ar == annualized_return_body(returns, param)
    IN  IF dd.kind = "raise" THEN dd
        ELSE IF ar.kind = "raise" THEN ar
        ELSE RFloat(Opaque)

\* line 196: quantile of a Series, or of every window of a Rolling object
VaR_body(returns, delta) ==
    IF returns.kind = "Rolling"
    THEN RSeries([returns.s EXCEPT !.vals =
            RollingQuantileVals(returns.s.vals, returns.window, delta)])
    ELSE RFloat(QuantileVals(returns.s.vals, delta))

\* line 223: -returns.mean() / self.VaR(returns, delta=delta)
VaR_ratio_body(returns, delta) ==
    LET var == VaR_body(returns, delta)
    IN  IF returns.kind = "Rolling"
        THEN LET mean == RollingMeanVals(returns.s.vals, returns.window)
             IN  RSeries([returns.s EXCEPT !.vals =
                    [i \in 1..Len(mean) |-> FDiv(FNeg(mean[i]), var.s.vals[i])]])
        ELSE RFloat(FDiv(FNeg(MeanVals(returns.s.vals)), var.num))

\* returns[returns <= VaR].mean() of a Series
CVaRVals(v, delta) ==
    LET var == QuantileVals(v, delta)
    IN  MeanVals(Masked(v, [i \in 1..Len(v) |-> FLe(v[i], var)]))

\* line 228: a Rolling object cannot be compared with <=
CVaR_body(returns, delta) ==
    IF returns.kind = "Rolling" THEN RRaise("TypeError")
    ELSE RFloat(CVaRVals(returns.s.vals, delta))

\* lines 255-260
CVaR_ratio_body(returns, rolling, delta) ==
    IF rolling
    THEN LET mean == RollingMeanVals(returns.s.vals, returns.window)
         IN  RSeries([returns.s EXCEPT !.vals =
                [i \in 1..Len(mean) |->
                    IF i < returns.window THEN NaN
                    ELSE FDiv(FNeg(mean[i]),
                              CVaRVals(SubSeq(returns.s.vals, i - returns.window + 1, i),
                                       delta))]])
    ELSE LET cvar == CVaR_body(returns, delta)
         IN  IF cvar.kind = "raise" THEN cvar
             ELSE RFloat(FDiv(FNeg(MeanVals(returns.s.vals)), cvar.num))

CountPositive(v) == Len(Masked(v, [i \in 1..Len(v) |-> FLt(Zero, v[i])]))
CountNonzero(v) == Len(Masked(v, [i \in 1..Len(v) |-> FNe(v[i], Zero)]))

\* the windows of a Rolling object that are full, by their last position
FullWindows(returns) ==
    {i \in 1..Len(returns.s.vals) : i >= returns.window}

WindowVals(returns, i) == SubSeq(returns.s.vals, i - returns.window + 1, i)

\* lines 287-288: hit divides two Python ints, so no nonzero return is a
\* ZeroDivisionError; hit(Rolling) is a TypeError (Rolling > 0.0)
hit_ratio_body(returns, rolling) ==
    IF rolling
    THEN IF \E i \in FullWindows(returns) : CountNonzero(WindowVals(returns, i)) = 0
         THEN RRaise("ZeroDivisionError")
         ELSE RSeries([returns.s EXCEPT !.vals =
                [i \in 1..Len(returns.s.vals) |->
                    IF i < returns.window THEN NaN
                    ELSE Q(CountPositive(WindowVals(returns, i)),
                           CountNonzero(WindowVals(returns, i)))]])
    ELSE IF returns.kind = "Rolling" THEN RRaise("TypeError")
    ELSE IF CountNonzero(returns.s.vals) = 0 THEN RRaise("ZeroDivisionError")
    ELSE RFloat(Q(CountPositive(returns.s.vals), CountNonzero(returns.s.vals)))

\* GPR of line 315 on the values of a Series: the means are numpy floats
GPRVals(v) ==
    FDiv(MeanVals(Masked(v, [i \in 1..Len(v) |-> FLt(Zero, v[i])])),
         FNeg(MeanVals(Masked(v, [i \in 1..Len(v) |-> FLt(v[i], Zero)]))))

\* lines 315-316
GtP_ratio_body(returns, rolling) ==
    IF rolling
    THEN RSeries([returns.s EXCEPT !.vals =
            [i \in 1..Len(returns.s.vals) |->
                IF i < returns.window THEN NaN ELSE GPRVals(WindowVals(returns, i))]])
    ELSE IF returns.kind = "Rolling" THEN RRaise("TypeError")
    ELSE RFloat(GPRVals(returns.s.vals))

\* lines 321 and 326: self.rets.skew(), self.rets.kurtosis()
skewness_body(h) == RFloat(IF Len(h[SelfRets].vals) < 3 THEN NaN ELSE Opaque)
kurtosis_body(h) == RFloat(IF Len(h[SelfRets].vals) < 4 THEN NaN ELSE Opaque)

\* line 368
MDD_body(returns) ==
    LET dd == drawdown_body(returns)
    IN  IF dd.kind = "raise" THEN dd ELSE RFloat(MinVals(dd.s.vals))

\* line 354: within every run of dd != 0 the count 1, 2, ...; 0 elsewhere
RECURSIVE DdurCount(_)
DdurCount(mask) ==
    IF mask = <<>> THEN <<>>
    ELSE LET front == DdurCount(SubSeq(mask, 1, Len(mask) - 1))
         IN  Append(front,
                    IF ~mask[Len(mask)] THEN 0
                    ELSE IF front = <<>> THEN 1
                    ELSE front[Len(front)] + 1)

CumDaysByRow(index) == [i \in 1..Len(index) |-> i - 1]

\* line 360: date.diff().dt.days.fillna(0).astype(int).cumsum()
RECURSIVE CumDays(_)
CumDays(index) ==
    IF index = <<>> THEN <<>>
    ELSE LET front == CumDays(SubSeq(index, 1, Len(index) - 1))
         IN  Append(front,
                    IF front = <<>> THEN 0
                    ELSE front[Len(front)] + (index[Len(index)] - index[Len(index) - 1]))

\* lines 352-363
drawdown_duration_body(returns) ==
    LET dd == drawdown_body(returns)
    IN  IF dd.kind = "raise" THEN dd
        ELSE LET n == Len(dd.s.vals)
                 ddur_count == DdurCount([i \in 1..n |-> FNe(dd.s.vals[i], Zero)])
                 count_0 == [i \in 1..n |-> IF ddur_count[i] > 0 THEN 0 ELSE 1]
                 cumdays == CumDays(dd.s.index)
                 filled == Fillna0(FFill(Replace0NaN(
                              [i \in 1..n |-> Q(count_0[i] * cumdays[i], 1)])))
             IN  RSeries([index |-> dd.s.index,
                          vals  |-> [i \in 1..n |-> Q(cumdays[i] - Trunc(filled[i]), 1)]])

\* line 381: self.drawdown_duration() is called without the returns
MDD_duration_body(h, returns) ==
    LET ddur == drawdown_duration_body(SeriesValue(h[SelfRets]))
    IN  RFloat(MaxVals(ddur.s.vals))

\* lines 391-405: the label of every line of the report, in order
ReportLabels ==
    <<"Annualized Return", "Annualized Volatility", "Skewness", "Kurtosis",
      "Max Drawdown", "Max Drawdown Duration", "Annualized Sharp Ratio",
      "Annualized Sortino Ratio", "Annualized Calmar Ratio", "Annualized VaR",
      "Annualized VaR Ratio", "Annualized CVaR", "Annualized CVaR Ratio",
      "Annualized hit Ratio", "Annualized GtP Ratio">>

\* lines 391-405: the statistic every line formats.  Each self.method(returns)
\* goes through its own wrapper with the defaults rolling=False, lookback=1,
\* so it works on one more copy of `returns` (sortino_ratio writes to its own)
print_report_calls(h, returns, delta, param) ==
    <<annualized_return_body(returns, param),
      annualized_volatility_body(returns, param),
      skewness_body(h),
      kurtosis_body(h),
      MDD_body(returns),
      MDD_duration_body(h, returns),
      sharp_ratio_body(returns, param),
      sortino_ratio_body(h, SelfRets, returns, param).result,
      calmar_ratio_body(returns, FALSE, param),
      VaR_body(returns, delta),
      VaR_ratio_body(returns, delta),
      CVaR_body(returns, delta),
      CVaR_ratio_body(returns, FALSE, delta),
      hit_ratio_body(returns, FALSE),
      GtP_ratio_body(returns, FALSE)>>

\* the lines printed before the first statistic that raises: an exception
\* leaves print_report at once
PrintedLines(results) ==
    LET raising == {i \in 1..Len(results) : results[i].kind = "raise"}
    IN  IF raising = {} THEN Len(results) ELSE Min(raising) - 1

\* what the prints leave: the lines printed, and None when every line is
\* printed, else the exception
ReportOutcome(results, n) ==
    [stdout |-> SubSeq(ReportLabels, 1, n),
     result |-> IF n = Len(results) THEN RNone ELSE results[n + 1]]

\* lines 389-405
print_report_body(h, returns, delta, param) ==
    CHOOSE outcome \in {ReportOutcome(results, PrintedLines(results)) :
                            results \in {print_report_calls(h, returns, delta, param)}} :
        TRUE


---------------------------------------------------------------------------
(* class Metric: construction and calls *)

\* the values a cell of a Metric's portfolio may hold
ValueInts == {1, 2, 3}
\* the returns a row of the caller's own Series may hold, as <<n, d>>
RetVals == {<<-1, 2>>, <<1, 1>>}
\* the dates of the caller's own Series: an irregular calendar
CallerDates == <<1, 2, 4>>
\* the frequency label of the Metric objects whose methods are called
CallFreqs == {"half-year"}
\* labels that are not keys of annualize_scale_dict
OtherLabels == {"hour", "Day"}
\* the lookback arguments of the rolling calls: an int and a float
Lookbacks == {[type |-> "int", val |-> <<1, 1>>], [type |-> "float", val |-> <<3, 2>>]}
DefaultLookback == [type |-> "int", val |-> <<1, 1>>]
\* the delta arguments: the default 0.01, and 0.5
Deltas == {<<1, 100>>, <<1, 2>>}
DefaultDelta == <<1, 100>>

NoArgs == [type |-> "none", index |-> <<>>, rows |-> <<>>, freq |-> ""]
NoMetric == [alive |-> FALSE, portfolio |-> EmptySeries, param |-> 0, freq2day |-> 0,
             cum_rets |-> EmptySeries]

\* a call of a method: its name, its arguments and how it ended
Call(op, arg, rolling, lookback, delta, result) ==
    [op |-> op, arg |-> arg, rolling |-> rolling, lookback |-> lookback,
     delta |-> delta, result |-> result]

NoCall == Call("none", "None", FALSE, DefaultLookback, DefaultDelta, RNone)

\* the portfolios a Metric is made of: a strictly increasing date index,
\* positive values
PortfolioFrames ==
    UNION {[index : {SortedSeq(D)},
            rows  : [1..Cardinality(D) -> [1..1 -> {Q(p, 1) : p \in ValueInts}]]]
           : D \in (SUBSET (1..MaxDate)) \ {{}}}

CallerSeriesSet ==
    [index : {CallerDates}, vals : [1..Len(CallerDates) -> RetVals]]

PortIdle ==
    /\ price_df = EmptyFrame
    /\ weight_df = EmptyFrame
    /\ pc = "idle"
    /\ prev_end_day = 0
    /\ pos = 0
    /\ cum_rtn_up_until_now = One
    /\ individual_port_val_df_list = <<>>
    /\ individual_port_val_df = EmptyFrame
    /\ raised = "none"

\* Metric(portfolio, freq) is about to be called with a Series
InitMetric ==
    /\ PortIdle
    /\ \E f \in PortfolioFrames, freq \in CallFreqs :
          ctor_args = [type |-> "Series", index |-> f.index, rows |-> f.rows,
                       freq |-> freq]
    /\ metric = NoMetric
    /\ heap \in {<<EmptySeries, c>> : c \in CallerSeriesSet}
    /\ last = NoCall
    /\ stdout = <<>>

\* Metric(portfolio, freq) is about to be called with a Series, a DataFrame
\* or another object, and with any label
InitCtor ==
    /\ PortIdle
    /\ \E type \in {"Series", "DataFrame", "ndarray"}, freq \in Labels \cup OtherLabels :
          \E f \in PriceTables(IF type = "DataFrame" THEN 2 ELSE 1) :
              ctor_args = [type |-> type, index |-> f.index, rows |-> f.rows,
                           freq |-> freq]
    /\ metric = NoMetric
    /\ heap = <<EmptySeries, EmptySeries>>
    /\ last = NoCall
    /\ stdout = <<>>

annualize_scaler_any(param) ==
    IF param \in Labels THEN annualize_scale_dict(param) ELSE 1

\* lines 30-46: the scale of a label of the dict; 0 when it raises
annualize_scaler(param) == annualize_scale_dict(param)

\* Metric.__init__, lines 17-28
Construct ==
    /\ ctor_args.type # "none"
    /\ ~metric.alive
    /\ last.op = "none"
    /\ IF ctor_args.type \notin {"DataFrame", "Series"}
       THEN /\ last' = Call("__init__", "None", FALSE, DefaultLookback, DefaultDelta,
                         RRaise("TypeError"))
            /\ UNCHANGED <<metric, heap>>
       ELSE LET portfolio ==
                    IF ctor_args.type = "DataFrame"
                    THEN SumAxis1([index |-> ctor_args.index, rows |-> ctor_args.rows])
                    ELSE [index |-> ctor_args.index,
                          vals  |-> [i \in 1..Len(ctor_args.rows) |-> ctor_args.rows[i][1]]]
                param == annualize_scaler(ctor_args.freq)
                rets == PctChangeFillna0(portfolio)
            IN  IF param = 0
                THEN /\ last' = Call("__init__", "None", FALSE, DefaultLookback,
                                  DefaultDelta, RRaise("Exception"))
                     /\ UNCHANGED <<metric, heap>>
                ELSE /\ metric' = [alive |-> TRUE, portfolio |-> portfolio,
                                   param |-> param, freq2day |-> 252 \div param,
                                   cum_rets |-> CumProd1p(rets)]
                     /\ heap' = [heap EXCEPT ![SelfRets] = rets]
                     /\ last' = Call("__init__", "None", FALSE, DefaultLookback,
                                  DefaultDelta, RNone)
    /\ UNCHANGED <<ctor_args, stdout, portVars>>

NextCtor == Construct

SpecCtor == InitCtor /\ [][NextCtor]_vars


---------------------------------------------------------------------------
(* The methods of Metric.  Each action is one call from outside: the
   decorator's wrapper, the body, and what the call leaves behind. *)

\* the `returns` argument: None, or the caller's own Series
Args == {"None", "caller"}

\* the (rolling, lookback) arguments of a call of a @rolling method
RollingArgs ==
    {[rolling |-> FALSE, lookback |-> DefaultLookback]}
        \cup {[rolling |-> TRUE, lookback |-> l] : l \in Lookbacks}

\* the call is over: the temporaries are gone, the call is on record (one
\* call is on record at a time: the caller drops a result before the next call)
Return(op, arg, rolling, lookback, delta, h, result) ==
    /\ metric.alive
    /\ last.op \in {"__init__", "dropped"}
    /\ heap' = Persist(h)
    /\ last' = Call(op, arg, rolling, lookback, delta, result)
    /\ stdout' = <<>>
    /\ UNCHANGED <<ctor_args, metric, portVars>>

\* @external annualized_return
annualized_return ==
    \E arg \in Args :
        LET w == ExternalWrapper(heap, arg)
        IN  Return("annualized_return", arg, FALSE, DefaultLookback, DefaultDelta, w.heap,
                   annualized_return_body(w.returns, metric.param))

\* @external annualized_volatility
annualized_volatility ==
    \E arg \in Args :
        LET w == ExternalWrapper(heap, arg)
        IN  Return("annualized_volatility", arg, FALSE, DefaultLookback, DefaultDelta, w.heap,
                   annualized_volatility_body(w.returns, metric.param))

\* @external VaR
VaR ==
    \E arg \in Args, delta \in Deltas :
        LET w == ExternalWrapper(heap, arg)
        IN  Return("VaR", arg, FALSE, DefaultLookback, delta, w.heap,
                   VaR_body(w.returns, delta))

\* @external CVaR
CVaR ==
    \E arg \in Args, delta \in Deltas :
        LET w == ExternalWrapper(heap, arg)
        IN  Return("CVaR", arg, FALSE, DefaultLookback, delta, w.heap,
                   CVaR_body(w.returns, delta))

\* @external skewness
skewness ==
    \E arg \in Args :
        LET w == ExternalWrapper(heap, arg)
        IN  Return("skewness", arg, FALSE, DefaultLookback, DefaultDelta, w.heap,
                   skewness_body(w.heap))

\* @external kurtosis
kurtosis ==
    \E arg \in Args :
        LET w == ExternalWrapper(heap, arg)
        IN  Return("kurtosis", arg, FALSE, DefaultLookback, DefaultDelta, w.heap,
                   kurtosis_body(w.heap))

\* @external drawdown
drawdown ==
    \E arg \in Args :
        LET w == ExternalWrapper(heap, arg)
        IN  Return("drawdown", arg, FALSE, DefaultLookback, DefaultDelta, w.heap,
                   drawdown_body(w.returns))

\* @external drawdown_duration
drawdown_duration ==
    \E arg \in Args :
        LET w == ExternalWrapper(heap, arg)
        IN  Return("drawdown_duration", arg, FALSE, DefaultLookback, DefaultDelta, w.heap,
                   drawdown_duration_body(w.returns))

\* @external MDD
MDD ==
    \E arg \in Args :
        LET w == ExternalWrapper(heap, arg)
        IN  Return("MDD", arg, FALSE, DefaultLookback, DefaultDelta, w.heap,
                   MDD_body(w.returns))

\* @external MDD_duration
MDD_duration ==
    \E arg \in Args :
        LET w == ExternalWrapper(heap, arg)
        IN  Return("MDD_duration", arg, FALSE, DefaultLookback, DefaultDelta, w.heap,
                   MDD_duration_body(w.heap, w.returns))

\* @rolling sharp_ratio
sharp_ratio ==
    \E arg \in Args, r \in RollingArgs :
        LET w == RollingWrapper(heap, arg, r.rolling, r.lookback, metric.param)
        IN  Return("sharp_ratio", arg, r.rolling, r.lookback, DefaultDelta, w.heap,
                   RollingResult(sharp_ratio_body(w.returns, metric.param)))

\* @rolling calmar_ratio
calmar_ratio ==
    \E arg \in Args, r \in RollingArgs :
        LET w == RollingWrapper(heap, arg, r.rolling, r.lookback, metric.param)
        IN  Return("calmar_ratio", arg, r.rolling, r.lookback, DefaultDelta, w.heap,
                   RollingResult(calmar_ratio_body(w.returns, w.rolling, metric.param)))

\* @rolling VaR_ratio
VaR_ratio ==
    \E arg \in Args, r \in RollingArgs, delta \in Deltas :
        LET w == RollingWrapper(heap, arg, r.rolling, r.lookback, metric.param)
        IN  Return("VaR_ratio", arg, r.rolling, r.lookback, delta, w.heap,
                   RollingResult(VaR_ratio_body(w.returns, delta)))

\* @rolling CVaR_ratio
CVaR_ratio ==
    \E arg \in Args, r \in RollingArgs, delta \in Deltas :
        LET w == RollingWrapper(heap, arg, r.rolling, r.lookback, metric.param)
        IN  Return("CVaR_ratio", arg, r.rolling, r.lookback, delta, w.heap,
                   RollingResult(CVaR_ratio_body(w.returns, w.rolling, delta)))

\* @rolling hit_ratio
hit_ratio ==
    \E arg \in Args, r \in RollingArgs :
        LET w == RollingWrapper(heap, arg, r.rolling, r.lookback, metric.param)
        IN  Return("hit_ratio", arg, r.rolling, r.lookback, DefaultDelta, w.heap,
                   RollingResult(hit_ratio_body(w.returns, w.rolling)))

\* @rolling GtP_ratio
GtP_ratio ==
    \E arg \in Args, r \in RollingArgs :
        LET w == RollingWrapper(heap, arg, r.rolling, r.lookback, metric.param)
        IN  Return("GtP_ratio", arg, r.rolling, r.lookback, DefaultDelta, w.heap,
                   RollingResult(GtP_ratio_body(w.returns, w.rolling)))

\* @rolling sortino_ratio: the body writes to the Series the wrapper bound
sortino_ratio ==
    \E arg \in Args, r \in RollingArgs :
        LET w == RollingWrapper(heap, arg, r.rolling, r.lookback, metric.param)
            b == sortino_ratio_body(w.heap, w.ref, w.returns, metric.param)
        IN  Return("sortino_ratio", arg, r.rolling, r.lookback, DefaultDelta, b.heap,
                   RollingResult(b.result))

\* @external print_report
print_report ==
    /\ metric.alive
    /\ last.op \in {"__init__", "dropped"}
    /\ \E arg \in Args, delta \in Deltas :
        \E w \in {ExternalWrapper(heap, arg)} :
        \E b \in {print_report_body(w.heap, w.returns, delta, metric.param)} :
            /\ heap' = Persist(w.heap)
            /\ last' = Call("print_report", arg, FALSE, DefaultLookback, delta, b.result)
            /\ stdout' = b.stdout
            /\ UNCHANGED <<ctor_args, metric, portVars>>

\* the caller drops the result of the last call
DropResult ==
    /\ metric.alive
    /\ last.op \notin {"none", "__init__", "dropped"}
    /\ last' = Call("dropped", "None", FALSE, DefaultLookback, DefaultDelta, RNone)
    /\ stdout' = <<>>
    /\ UNCHANGED <<ctor_args, metric, heap, portVars>>

NextMetric ==
    \/ Construct
    \/ DropResult
    \/ annualized_return
    \/ annualized_volatility
    \/ VaR
    \/ CVaR
    \/ skewness
    \/ kurtosis
    \/ drawdown
    \/ drawdown_duration
    \/ MDD
    \/ MDD_duration
    \/ sharp_ratio
    \/ calmar_ratio
    \/ VaR_ratio
    \/ CVaR_ratio
    \/ hit_ratio
    \/ GtP_ratio
    \/ sortino_ratio
    \/ print_report

SpecMetric == InitMetric /\ [][NextMetric]_vars


---------------------------------------------------------------------------
(* Properties of class Metric *)

\* the scales the Periodization contract documents
DocumentedScale ==
    [l \in Labels |->
        CASE l = "day" -> 252 [] l = "week" -> 52 [] l = "month" -> 12
          [] l = "quarter" -> 4 [] l = "half-year" -> 2 [] l = "year" -> 1]

\* C6: a Metric made with a label of {day, week, month, quarter, half-year,
\* year} has the scale 252, 52, 12, 4, 2, 1; with any other label the
\* constructor raises, and no Metric object exists with another scale.
C6_FrequencyScale ==
    /\ metric.alive =>
          /\ ctor_args.freq \in Labels
          /\ metric.param = DocumentedScale[ctor_args.freq]
          /\ metric.freq2day * metric.param <= 252
          /\ 252 < (metric.freq2day + 1) * metric.param
    /\ (last.op = "__init__" /\ ctor_args.freq \notin Labels) =>
          /\ ~metric.alive
          /\ last.result.kind = "raise"
          /\ ctor_args.type \in {"DataFrame", "Series"} => last.result.exc = "Exception"
    /\ (last.op = "__init__" /\ ctor_args.freq \in Labels
            /\ ctor_args.type \in {"DataFrame", "Series"}) => metric.alive

C6_Witness ==
    /\ last.op = "__init__"
    /\ ctor_args.freq = "hour"
    /\ ctor_args.type = "DataFrame"
    /\ last.result = RRaise("Exception")
    /\ ~metric.alive

\* the Series a call on record worked on
InputSeries == IF last.arg = "None" THEN heap[SelfRets] ELSE heap[CallerSeries]

\* the cumulative return after row i of the returns v: the product of 1 + v[j]
RECURSIVE WealthAt(_, _)
WealthAt(v, i) == IF i = 0 THEN One ELSE FMul(WealthAt(v, i - 1), FAdd(One, v[i]))

\* the cumulative return at row i is its running maximum
AtPeak(v, i) == \A j \in 1..i : FLe(WealthAt(v, j), WealthAt(v, i))

\* the last row up to i at which the cumulative return is at its running maximum
LastPeak(v, i) == CHOOSE j \in 1..i : AtPeak(v, j) /\ \A k \in (j + 1)..i : ~AtPeak(v, k)

\* C7: drawdown_duration on a strictly increasing, irregularly gapped date
\* index is 0 at every timestamp with zero drawdown, at every underwater
\* timestamp it is the number of calendar days since the most recent
\* timestamp with zero drawdown, and between two consecutive underwater
\* observations it grows by their calendar-day gap.
C7_DrawdownDuration ==
    last.op = "drawdown_duration" =>
        LET in == InputSeries
            ddur == last.result.s
            n == Len(in.vals)
        IN  /\ last.result.kind = "Series"
            /\ ddur.index = in.index
            /\ Len(ddur.vals) = n
            /\ \A i \in 1..n :
                  ddur.vals[i] =
                      IF AtPeak(in.vals, i) THEN Zero
                      ELSE Q(in.index[i] - in.index[LastPeak(in.vals, i)], 1)
            /\ \A i \in 1..(n - 1) :
                  (~AtPeak(in.vals, i) /\ ~AtPeak(in.vals, i + 1)) =>
                      FSub(ddur.vals[i + 1], ddur.vals[i])
                          = Q(in.index[i + 1] - in.index[i], 1)

C7_Witness ==
    /\ last.op = "drawdown_duration"
    /\ last.arg = "None"
    /\ last.result.s.index = <<1, 2, 4>>
    /\ last.result.s.vals = <<Zero, Q(1, 1), Q(3, 1)>>

\* C8: on a positive-valued series the drawdown is <= 0 at every timestamp
\* and 0 exactly where the cumulative return is at its running maximum; for
\* a constant or strictly increasing price series the drawdown is 0
\* everywhere, MDD is 0 and the drawdown duration is 0 everywhere.
C8_DrawdownSign ==
    LET in == InputSeries
        p == metric.portfolio.vals
        monotone == \/ \A i \in 1..(Len(p) - 1) : FLt(p[i], p[i + 1])
                    \/ \A i \in 1..(Len(p) - 1) : p[i] = p[i + 1]
    IN  /\ last.op = "drawdown" =>
              /\ last.result.kind = "Series"
              /\ Len(last.result.s.vals) = Len(in.vals)
              /\ \A i \in 1..Len(in.vals) :
                    /\ FLe(last.result.s.vals[i], Zero)
                    /\ last.result.s.vals[i] = Zero <=> AtPeak(in.vals, i)
              /\ last.arg = "None" =>
                    \A i \in 1..Len(p) :
                        last.result.s.vals[i] = Zero
                            <=> \A j \in 1..i : FLe(p[j], p[i])
        /\ (last.arg = "None" /\ monotone) =>
              /\ last.op \in {"drawdown", "drawdown_duration"} =>
                    \A i \in 1..Len(p) : last.result.s.vals[i] = Zero
              /\ last.op = "MDD" => last.result = RFloat(Zero)

C8_Witness ==
    /\ last.op = "drawdown"
    /\ last.arg = "None"
    /\ metric.portfolio.vals = <<Q(3, 1), Q(1, 1), Q(2, 1), Q(3, 1)>>
    /\ last.result.s.vals = <<Zero, Q(-2, 3), Q(-1, 3), Zero>>

RollingOps ==
    {"sharp_ratio", "sortino_ratio", "calmar_ratio", "VaR_ratio", "CVaR_ratio",
     "hit_ratio", "GtP_ratio"}

\* C9: a rolling-capable statistic called with rolling=True and a lookback
\* of L years returns a Series with the index of the return series it worked
\* on, whose entries before the window of trunc(L * scale) periods is full
\* are exactly 0.
C9_RollingSeries ==
    (last.op \in RollingOps /\ last.rolling) =>
        /\ last.result.kind = "Series"
        /\ last.result.s.index = InputSeries.index
        /\ Len(last.result.s.vals) = Len(InputSeries.vals)
        /\ \A i \in 1..Len(last.result.s.vals) :
              i < Trunc(FMul(last.lookback.val, Q(metric.param, 1)))
                  => last.result.s.vals[i] = Zero

\* C10: a call of a statistic, with or without the caller's Series as the
\* override, leaves self.rets and the caller's Series as they were, value
\* for value; self.rets stays the pct_change of the portfolio.
C10_Frame ==
    [][metric.alive =>
          /\ heap'[SelfRets] = heap[SelfRets]
          /\ heap'[CallerSeries] = heap[CallerSeries]
          /\ heap'[SelfRets] = PctChangeFillna0(metric'.portfolio)]_vars

C10_Witness ==
    /\ last.op = "sortino_ratio"
    /\ last.arg = "caller"
    /\ ~last.rolling
    /\ last.result.kind = "float"
    /\ \E i \in 1..Len(heap[CallerSeries].vals) : FLt(Zero, heap[CallerSeries].vals[i])
    /\ \E i \in 1..Len(heap[SelfRets].vals) : FLt(Zero, heap[SelfRets].vals[i])

\* the portfolio of the Metric never changes in value: every stored return is 0
ConstantPortfolio ==
    \A i \in 1..Len(metric.portfolio.vals) :
        metric.portfolio.vals[i] = metric.portfolio.vals[1]

\* C11: a statistic over an empty subset returns NaN and raises nothing:
\* the hit ratio of a series with no nonzero return and the gain-to-pain
\* ratio of a series with no losing period are NaN, and print_report on a
\* constant-value series ends without an exception after printing all
\* fifteen lines.
C11_UndefinedIsNaN ==
    /\ (last.op = "hit_ratio" /\ ~last.rolling
            /\ CountNonzero(InputSeries.vals) = 0) =>
          last.result.kind = "float" /\ IsNaN(last.result.num)
    /\ (last.op = "GtP_ratio" /\ ~last.rolling
            /\ \A i \in 1..Len(InputSeries.vals) : ~FLt(InputSeries.vals[i], Zero)) =>
          last.result.kind = "float" /\ IsNaN(last.result.num)
    /\ (last.op = "print_report" /\ last.arg = "None" /\ ConstantPortfolio) =>
          /\ last.result.kind # "raise"
          /\ stdout = ReportLabels

\* C12: MDD_duration called with the caller's Series R returns the maximum
\* of drawdown_duration(R).
C12_MDDDurationOverride ==
    (last.op = "MDD_duration" /\ last.arg = "caller") =>
        last.result =
            RFloat(MaxVals(drawdown_duration_body(SeriesValue(heap[CallerSeries])).s.vals))

---------------------------------------------------------------------------
(* Rebalancing in calculate_portvals *)

\* calculate_portvals is called as its contract asks: a schedule of two or
\* more rebalancing dates, every one a timestamp of the price table
InitRebalance ==
    /\ InitPort
    /\ Len(weight_df.index) >= 2
    /\ Range(weight_df.index) \subseteq Range(price_df.index)

SpecRebalance == InitRebalance /\ [][NextPort]_vars

\* the schedule with the weights of its last row replaced by w
WithLastWeights(wdf, w) == [wdf EXCEPT !.rows[Len(wdf.rows)] = w]

\* C13: where the weights of rebalancing date t_(k+1) sum to 1, the first
\* row of interval k+1 (dropped from the output) has the row sum of the last
\* row of interval k (retained): the total value is the same on both sides of
\* the rebalance.  The returned table holds at t_(k+1) the per-asset values
\* of interval k, the ones under the weights of t_k, and it is the table the
\* call returns for any weights in the last schedule row, its own included.
C13_ValueConserved ==
    LET list == individual_port_val_df_list
    IN  /\ \A k \in 1..(Len(list) - 1) :
              FSum(weight_df.rows[k + 1]) = One =>
                  FSum(list[k + 1].rows[1]) = FSum(list[k].rows[Len(list[k].rows)])
        /\ (pc = "returned" /\ SchedInIndex) =>
              \A k \in 1..Len(list) :
                  LET row == LocRow(individual_port_val_df, weight_df.index[k + 1])
                      start == IF k = 1 THEN One
                               ELSE FSum(list[k - 1].rows[Len(list[k - 1].rows)])
                  IN  /\ row = list[k].rows[Len(list[k].rows)]
                      /\ \A c \in 1..NumAssets :
                            row[c] = FMul(WeightedDrift(k, weight_df.index[k + 1], c),
                                          start)
        /\ pc = "returned" =>
              \A w \in [1..NumAssets -> WeightVals] :
                  calculate_portvals(price_df, WithLastWeights(weight_df, w))
                      = individual_port_val_df

C13_Witness ==
    /\ pc = "returned"
    /\ SchedInIndex
    /\ Len(weight_df.index) = 3
    /\ NumAssets = 2
    /\ FSum(weight_df.rows[2]) = One
    /\ FSum(weight_df.rows[3]) # One
    /\ individual_port_val_df_list[2].rows[1] # individual_port_val_df_list[1].rows[2]
    /\ FSum(individual_port_val_df_list[2].rows[1]) = FSum(individual_port_val_df.rows[2])
    /\ cum_rtn_up_until_now # One

=============================================================================
